---- MODULE Spec2Model ----
(***************************************************************************)
(* ChaosChain SGX enclave stub (verification/tee/enclave/src/lib.rs).      *)
(*                                                                         *)
(* The crate exposes add(a, b) and process_operation(input).  Strings are  *)
(* modelled as sequences of one-character strings so that format!,         *)
(* starts_with and substring search are computed, not assumed.  i32        *)
(* values keep their full 32-bit width.  The build profile decides what    *)
(* `a + b` does on overflow (overflow checks: panic; otherwise: wrap), so  *)
(* the profile is a variable fixed by Init.                                *)
(***************************************************************************)
EXTENDS Integers, Sequences, FiniteSets, TLC

VARIABLES
    overflow_checks, \* TRUE: `a + b` panics on overflow (dev/test profile)
    pc,              \* per caller: position inside process_operation
    input,           \* per caller: the EnclaveInput moved into the call
    result,          \* per caller: the local `result` of the "add" arm
    output,          \* per caller: the EnclaveOutput returned (or the panic)
    adds,            \* per caller: invocations of add() made by this call
    direct           \* the last direct call add(a, b) and what it gave

vars == <<overflow_checks, pc, input, result, output, adds, direct>>

----------------------------------------------------------------------------
(* Bounds of the model *)

MaxParams == 3      \* longest parameter vector a caller passes
NumCallers == 2     \* concurrent callers in SpecConc

----------------------------------------------------------------------------
(* i32 *)

I32_MAX == 2147483647
I32_MIN == -I32_MAX - 1

\* `a + b` leaves the i32 range
OverflowsI32(a, b) ==
    \/ a > 0 /\ b > 0 /\ a > I32_MAX - b
    \/ a < 0 /\ b < 0 /\ a < I32_MIN - b

\* the bits the machine addition leaves in the register
WrappedI32(a, b) ==
    IF a > 0 /\ b > 0 /\ a > I32_MAX - b THEN (a + I32_MIN) + (b + I32_MIN)
    ELSE IF a < 0 /\ b < 0 /\ a < I32_MIN - b THEN (a - I32_MIN) + (b - I32_MIN)
    ELSE a + b

\* pub fn add(a: i32, b: i32) -> i32 { a + b }
add(a, b) ==
    IF OverflowsI32(a, b) /\ overflow_checks
    THEN [panicked |-> TRUE, value |-> 0]
    ELSE [panicked |-> FALSE, value |-> WrappedI32(a, b)]

----------------------------------------------------------------------------
(* Strings *)

STR_add == <<"a", "d", "d">>
STR_SUCCESS == <<"S", "U", "C", "C", "E", "S", "S">>
STR_ARITY == <<"E", "R", "R", "O", "R", ":", " ", "a", "d", "d", " ", "o", "p", "e", "r", "a", "t", "i", "o", "n", " ", "r", "e", "q", "u", "i", "r", "e", "s", " ", "e", "x", "a", "c", "t", "l", "y", " ", "2", " ", "p", "a", "r", "a", "m", "e", "t", "e", "r", "s">>
STR_UNSUPPORTED_PREFIX == <<"E", "R", "R", "O", "R", ":", " ", "U", "n", "s", "u", "p", "p", "o", "r", "t", "e", "d", " ", "o", "p", "e", "r", "a", "t", "i", "o", "n", " ", "'">>
STR_QUOTE == <<"'">>

\* str::starts_with
StartsWith(s, p) == Len(s) >= Len(p) /\ SubSeq(s, 1, Len(p)) = p

\* operation names callers pass
OP_empty == <<>>
OP_Add == <<"A", "d", "d">>
OP_ADD == <<"A", "D", "D">>
OP_multiply == <<"m", "u", "l", "t", "i", "p", "l", "y">>
OP_wording == <<"r", "e", "q", "u", "i", "r", "e", "s", " ", "e", "x", "a", "c", "t", "l", "y", " ", "2", " ", "p", "a", "r", "a", "m", "e", "t", "e", "r", "s">>

OpNames == {STR_add, OP_empty, OP_Add, OP_ADD, OP_multiply, OP_wording}
ConcOpNames == {STR_add, OP_multiply}

Values == {I32_MIN, -1, 1, I32_MAX}

ParamLists(V, n) == UNION {[1..k -> V] : k \in 0..n}

\* EnclaveInput values
Inputs == [operation : OpNames, parameters : ParamLists(Values, MaxParams)]
ConcParameters == {<<>>, <<1>>, <<1, 1>>, <<I32_MAX, 1>>, <<1, 1, 1>>}
ConcInputs == [operation : ConcOpNames, parameters : ConcParameters]

----------------------------------------------------------------------------
(* process_operation, piece by piece *)

\* mutant: ASCII case-insensitive comparison
IsAddIgnoreCase(op) == op \in {STR_add, OP_Add, OP_ADD}

\* match input.operation.as_str() { "add" => ...
IsAdd(op) == op = STR_add

\* mutant: only too few parameters are rejected
ArityMismatchTooFew(parameters) == Len(parameters) < 2

\* if input.parameters.len() != 2
ArityMismatch(parameters) == Len(parameters) # 2

\* mutant: an error code in result
ArityErrorCode == [panicked |-> FALSE, result |-> -1, status |-> STR_ARITY]

\* EnclaveOutput { result: 0, status: "ERROR: add operation requires ..." }
ArityError == [panicked |-> FALSE, result |-> 0, status |-> STR_ARITY]

\* mutant: the name is not echoed
UnsupportedNoName(op) ==
    [panicked |-> FALSE, result |-> 0,
     status |-> STR_UNSUPPORTED_PREFIX \o STR_QUOTE]

\* EnclaveOutput { result: 0, status: format!("ERROR: Unsupported operation '{}'", op) }
Unsupported(op) ==
    [panicked |-> FALSE, result |-> 0,
     status |-> STR_UNSUPPORTED_PREFIX \o op \o STR_QUOTE]

\* EnclaveOutput { result, status: "SUCCESS" }
Success(r) == [panicked |-> FALSE, result |-> r, status |-> STR_SUCCESS]

\* the call unwound with "attempt to add with overflow": nothing is returned
Panicked == [panicked |-> TRUE, result |-> 0, status |-> <<>>]

\* the whole function, run alone from entry to exit
process_operation(inp) ==
    IF IsAdd(inp.operation)
    THEN IF ArityMismatch(inp.parameters)
         THEN ArityError
         ELSE LET r == add(inp.parameters[1], inp.parameters[2])
              IN  IF r.panicked THEN Panicked ELSE Success(r.value)
    ELSE Unsupported(inp.operation)

----------------------------------------------------------------------------
(* State *)

NoInput == [operation |-> <<>>, parameters |-> <<>>]
NoOutput == [panicked |-> FALSE, result |-> 0, status |-> <<>>]
NoDirect == [called |-> FALSE, a |-> 0, b |-> 0, panicked |-> FALSE, value |-> 0]

Callers == DOMAIN pc

\* the shape of the state: EnclaveInput, EnclaveOutput and the call's locals
TypeOK ==
    /\ overflow_checks \in BOOLEAN
    /\ \A t \in Callers :
        /\ pc[t] \in {"idle", "match", "arity", "add", "build", "returned", "panicked"}
        /\ input[t].parameters \in Seq(I32_MIN..I32_MAX)
        /\ result[t] \in I32_MIN..I32_MAX
        /\ output[t].panicked \in BOOLEAN
        /\ output[t].result \in I32_MIN..I32_MAX
        /\ adds[t] \in 0..1
    /\ direct.called \in BOOLEAN
    /\ direct.value \in I32_MIN..I32_MAX

InitFor(C) ==
    /\ overflow_checks \in BOOLEAN
    /\ pc = [t \in C |-> "idle"]
    /\ input = [t \in C |-> NoInput]
    /\ result = [t \in C |-> 0]
    /\ output = [t \in C |-> NoOutput]
    /\ adds = [t \in C |-> 0]
    /\ direct = NoDirect

Init == InitFor({1})
InitConc == InitFor(1..NumCallers)

----------------------------------------------------------------------------
(* Steps of one call *)

\* the caller moves an EnclaveInput into process_operation
Call(t, inp) ==
    /\ pc[t] = "idle"
    /\ pc' = [pc EXCEPT ![t] = "match"]
    /\ input' = [input EXCEPT ![t] = inp]
    /\ UNCHANGED <<overflow_checks, result, output, adds, direct>>

\* mutant: the name is formatted from a buffer every caller writes
MatchSharedName(t) ==
    /\ pc[t] = "match"
    /\ LET u == CHOOSE c \in Callers : pc[c] # "idle" /\ \A d \in Callers : pc[d] # "idle" => c <= d
       IN IF IsAdd(input[t].operation)
          THEN pc' = [pc EXCEPT ![t] = "arity"] /\ UNCHANGED output
          ELSE /\ output' = [output EXCEPT ![t] = Unsupported(input[u].operation)]
               /\ pc' = [pc EXCEPT ![t] = "returned"]
    /\ UNCHANGED <<overflow_checks, input, result, adds, direct>>

\* match input.operation.as_str(): the "add" arm or the `_` arm
Match(t) ==
    /\ pc[t] = "match"
    /\ IF IsAdd(input[t].operation)
       THEN pc' = [pc EXCEPT ![t] = "arity"] /\ UNCHANGED output
       ELSE /\ output' = [output EXCEPT ![t] = Unsupported(input[t].operation)]
            /\ pc' = [pc EXCEPT ![t] = "returned"]
    /\ UNCHANGED <<overflow_checks, input, result, adds, direct>>

\* the arity guard of the "add" arm, with its early return
CheckArity(t) ==
    /\ pc[t] = "arity"
    /\ IF ArityMismatch(input[t].parameters)
       THEN /\ output' = [output EXCEPT ![t] = ArityError]
            /\ pc' = [pc EXCEPT ![t] = "returned"]
       ELSE pc' = [pc EXCEPT ![t] = "add"] /\ UNCHANGED output
    /\ UNCHANGED <<overflow_checks, input, result, adds, direct>>

\* what indexing parameters[i] gives: out of bounds panics
ParamAt(parameters, i) == IF i <= Len(parameters) THEN parameters[i] ELSE 0
IndexPanics(parameters) == Len(parameters) < 2

\* mutant: `result` lives in a static that every caller writes
CallAddShared(t) ==
    /\ pc[t] = "add"
    /\ adds' = [adds EXCEPT ![t] = @ + 1]
    /\ LET r == add(ParamAt(input[t].parameters, 1), ParamAt(input[t].parameters, 2))
       IN IF r.panicked \/ IndexPanics(input[t].parameters)
          THEN /\ output' = [output EXCEPT ![t] = Panicked]
               /\ pc' = [pc EXCEPT ![t] = "panicked"]
               /\ UNCHANGED result
          ELSE /\ result' = [c \in Callers |-> r.value]
               /\ pc' = [pc EXCEPT ![t] = "build"]
               /\ UNCHANGED output
    /\ UNCHANGED <<overflow_checks, input, direct>>

\* mutant: the first parameter is passed twice
CallAddFirstTwice(t) ==
    /\ pc[t] = "add"
    /\ adds' = [adds EXCEPT ![t] = @ + 1]
    /\ LET r == add(ParamAt(input[t].parameters, 1), ParamAt(input[t].parameters, 1))
       IN IF r.panicked \/ IndexPanics(input[t].parameters)
          THEN /\ output' = [output EXCEPT ![t] = Panicked]
               /\ pc' = [pc EXCEPT ![t] = "panicked"]
               /\ UNCHANGED result
          ELSE /\ result' = [result EXCEPT ![t] = r.value]
               /\ pc' = [pc EXCEPT ![t] = "build"]
               /\ UNCHANGED output
    /\ UNCHANGED <<overflow_checks, input, direct>>

\* let result = add(input.parameters[0], input.parameters[1]);
CallAdd(t) ==
    /\ pc[t] = "add"
    /\ adds' = [adds EXCEPT ![t] = @ + 1]
    /\ LET r == add(ParamAt(input[t].parameters, 1), ParamAt(input[t].parameters, 2))
       IN IF r.panicked \/ IndexPanics(input[t].parameters)
          THEN /\ output' = [output EXCEPT ![t] = Panicked]
               /\ pc' = [pc EXCEPT ![t] = "panicked"]
               /\ UNCHANGED result
          ELSE /\ result' = [result EXCEPT ![t] = r.value]
               /\ pc' = [pc EXCEPT ![t] = "build"]
               /\ UNCHANGED output
    /\ UNCHANGED <<overflow_checks, input, direct>>

\* EnclaveOutput { result, status: "SUCCESS".to_string() }
BuildOutput(t) ==
    /\ pc[t] = "build"
    /\ output' = [output EXCEPT ![t] = Success(result[t])]
    /\ pc' = [pc EXCEPT ![t] = "returned"]
    /\ UNCHANGED <<overflow_checks, input, result, adds, direct>>

\* the call is over (returned or unwound): its frame is gone
Finish(t) ==
    /\ pc[t] \in {"returned", "panicked"}
    /\ pc' = [pc EXCEPT ![t] = "idle"]
    /\ input' = [input EXCEPT ![t] = NoInput]
    /\ result' = [result EXCEPT ![t] = 0]
    /\ output' = [output EXCEPT ![t] = NoOutput]
    /\ adds' = [adds EXCEPT ![t] = 0]
    /\ UNCHANGED <<overflow_checks, direct>>

\* a direct call add(a, b), as the crate's tests make
DirectAdd(a, b) ==
    /\ \A t \in Callers : pc[t] = "idle"
    /\ LET r == add(a, b)
       IN direct' = [called |-> TRUE, a |-> a, b |-> b,
                     panicked |-> r.panicked, value |-> r.value]
    /\ UNCHANGED <<overflow_checks, pc, input, result, output, adds>>

Next ==
    \/ \E inp \in Inputs : Call(1, inp)
    \/ Match(1)
    \/ CheckArity(1)
    \/ CallAdd(1)
    \/ BuildOutput(1)
    \/ Finish(1)
    \/ \E a, b \in Values : DirectAdd(a, b)

Spec == Init /\ [][Next]_vars

NextConc ==
    \E t \in 1..NumCallers :
        \/ \E inp \in ConcInputs : Call(t, inp)
        \/ Match(t)
        \/ CheckArity(t)
        \/ CallAdd(t)
        \/ BuildOutput(t)
        \/ Finish(t)

SpecConc == InitConc /\ [][NextConc]_vars

----------------------------------------------------------------------------
(* The claims' own vocabulary: written out here, not taken from the model *)

Done(t) == pc[t] \in {"returned", "panicked"}
Returned(t) == pc[t] = "returned"
AddCall(t) == input[t].operation = <<"a", "d", "d">>
Arity2(t) == Len(input[t].parameters) = 2

TXT_SUCCESS == <<"S", "U", "C", "C", "E", "S", "S">>
TXT_ERROR == <<"E", "R", "R", "O", "R">>
TXT_ARITY == <<"E", "R", "R", "O", "R", ":", " ", "a", "d", "d", " ", "o", "p", "e", "r", "a", "t", "i", "o", "n", " ", "r", "e", "q", "u", "i", "r", "e", "s", " ", "e", "x", "a", "c", "t", "l", "y", " ", "2", " ", "p", "a", "r", "a", "m", "e", "t", "e", "r", "s">>
TXT_UNSUPPORTED(op) == <<"E", "R", "R", "O", "R", ":", " ", "U", "n", "s", "u", "p", "p", "o", "r", "t", "e", "d", " ", "o", "p", "e", "r", "a", "t", "i", "o", "n", " ", "'">> \o op \o <<"'">>
WORDING_ARITY == <<"r", "e", "q", "u", "i", "r", "e", "s", " ", "e", "x", "a", "c", "t", "l", "y", " ", "2", " ", "p", "a", "r", "a", "m", "e", "t", "e", "r", "s">>
WORDING_UNSUPPORTED == <<"U", "n", "s", "u", "p", "p", "o", "r", "t", "e", "d", " ", "o", "p", "e", "r", "a", "t", "i", "o", "n">>
WORDING_UNSUPPORTED_NAME(op) == WORDING_UNSUPPORTED \o <<" ", "'">> \o op \o <<"'">>

\* p occurs in s
Contains(s, p) == \E i \in 0..(Len(s) - Len(p)) : SubSeq(s, i + 1, i + Len(p)) = p

\* a + b over the integers, by 16-bit halves: x = Hi16(x) * 65536 + Lo16(x)
Lo16(x) == x % 65536
Hi16(x) == x \div 65536
HiSum(a, b) == Hi16(a) + Hi16(b) + ((Lo16(a) + Lo16(b)) \div 65536)
\* the mathematical sum lies in [-2^31, 2^31 - 1]
SumFitsI32(a, b) == HiSum(a, b) \in -32768..32767
\* the sum modulo 2^32, read as a signed 32-bit number
WrapSum32(a, b) ==
    (((HiSum(a, b) + 32768) % 65536) - 32768) * 65536 + ((Lo16(a) + Lo16(b)) % 65536)

----------------------------------------------------------------------------
\* C1: for every pair of i32 a, b (overflowing pairs included), process_operation
\* on {"add", [a, b]} returns result = the two's-complement wraparound sum of a
\* and b and status = "SUCCESS".
C1_AddReturnsWrappedSum ==
    \A t \in Callers :
        Done(t) /\ AddCall(t) /\ Arity2(t) =>
            /\ ~output[t].panicked
            /\ output[t].result = WrapSum32(input[t].parameters[1], input[t].parameters[2])
            /\ output[t].status = TXT_SUCCESS

\* C2: process_operation never ends in a panic: every call completes and
\* returns an EnclaveOutput, failures being reported through status only.
C2_NeverPanics ==
    \A t \in Callers : pc[t] # "panicked" /\ ~output[t].panicked

\* C3: for every operation name other than exactly "add" and every parameter
\* list, process_operation returns result 0 and status
\* "ERROR: Unsupported operation '<op>'" with op substituted literally; the
\* arity error is never reported and the "add" arm is never entered.
C3_UnsupportedOperation ==
    \A t \in Callers :
        pc[t] # "idle" /\ ~AddCall(t) =>
            /\ pc[t] \in {"match", "returned"}
            /\ adds[t] = 0
            /\ Returned(t) =>
                /\ output[t].result = 0
                /\ output[t].status = TXT_UNSUPPORTED(input[t].operation)
                /\ output[t].status # TXT_ARITY

C3_Witness ==
    \E t \in Callers :
        /\ Returned(t)
        /\ input[t].operation = <<"A", "d", "d">>
        /\ Arity2(t)
        /\ output[t].status = TXT_UNSUPPORTED(<<"A", "d", "d">>)

\* C4: for "add" with a parameter list whose length is not 2, process_operation
\* returns result 0 and status "ERROR: add operation requires exactly 2
\* parameters", and add() is not invoked on the supplied values.
C4_ArityError ==
    \A t \in Callers :
        pc[t] # "idle" /\ AddCall(t) /\ ~Arity2(t) =>
            /\ pc[t] \in {"match", "arity", "returned"}
            /\ adds[t] = 0
            /\ Returned(t) =>
                /\ output[t].result = 0
                /\ output[t].status = TXT_ARITY

C4_Witness ==
    \E t \in Callers :
        /\ Returned(t) /\ AddCall(t)
        /\ Len(input[t].parameters) = 3
        /\ output[t].status = TXT_ARITY

\* C5: every EnclaveOutput process_operation returns has status exactly
\* "SUCCESS" or beginning with "ERROR", and result 0 whenever status begins
\* with "ERROR".
C5_StatusShape ==
    \A t \in Callers :
        Returned(t) =>
            /\ output[t].status = TXT_SUCCESS \/ StartsWith(output[t].status, TXT_ERROR)
            /\ StartsWith(output[t].status, TXT_ERROR) => output[t].result = 0

C5_Witness ==
    \E t \in Callers :
        /\ Returned(t) /\ AddCall(t)
        /\ StartsWith(output[t].status, TXT_ERROR)
        /\ input[t].parameters = <<I32_MAX>>

\* C7: add(a, b) called directly and the result of process_operation on
\* {"add", [a, b]} have the same outcome, and when the sum is representable
\* in 32 bits that outcome is the mathematical sum a + b.
C7_DirectAgreesWithDispatch ==
    \A t \in Callers :
        /\ Done(t) /\ AddCall(t) /\ Arity2(t)
        /\ direct.called
        /\ direct.a = input[t].parameters[1]
        /\ direct.b = input[t].parameters[2]
        => /\ output[t].panicked = direct.panicked
           /\ ~direct.panicked => output[t].result = direct.value
           /\ SumFitsI32(direct.a, direct.b) =>
                /\ ~direct.panicked
                /\ direct.value = direct.a + direct.b
                /\ output[t].result = direct.a + direct.b

C7_Witness ==
    \E t \in Callers :
        /\ Returned(t) /\ AddCall(t)
        /\ input[t].parameters = <<I32_MAX, -1>>
        /\ direct.called /\ direct.a = I32_MAX /\ direct.b = -1
        /\ output[t].result = I32_MAX - 1

\* C8 (as claimed): an arity failure's status contains "requires exactly 2
\* parameters" and not "Unsupported operation"; an unsupported-operation
\* failure's status contains "Unsupported operation '<name>'" and not
\* "requires exactly 2 parameters", whatever the name.
C8_WordingsDisjoint ==
    \A t \in Callers :
        Returned(t) =>
            /\ AddCall(t) /\ ~Arity2(t) =>
                /\ Contains(output[t].status, WORDING_ARITY)
                /\ ~Contains(output[t].status, WORDING_UNSUPPORTED)
            /\ ~AddCall(t) =>
                /\ Contains(output[t].status, WORDING_UNSUPPORTED_NAME(input[t].operation))
                /\ ~Contains(output[t].status, WORDING_ARITY)

\* C8 (amended): as above, except that an unsupported-operation failure's
\* status contains "requires exactly 2 parameters" exactly when the operation
\* name itself contains it.
C8_WordingsDistinguish ==
    \A t \in Callers :
        Returned(t) =>
            /\ AddCall(t) /\ ~Arity2(t) =>
                /\ Contains(output[t].status, WORDING_ARITY)
                /\ ~Contains(output[t].status, WORDING_UNSUPPORTED)
            /\ ~AddCall(t) =>
                /\ Contains(output[t].status, WORDING_UNSUPPORTED_NAME(input[t].operation))
                /\ Contains(output[t].status, WORDING_ARITY)
                       <=> Contains(input[t].operation, WORDING_ARITY)

C8_Witness ==
    \E t \in Callers :
        /\ Returned(t)
        /\ input[t].operation = WORDING_ARITY
        /\ Contains(output[t].status, WORDING_UNSUPPORTED)
        /\ Contains(output[t].status, WORDING_ARITY)

\* C10: process_operation returns status "SUCCESS" if and only if the
\* operation is exactly "add" and there are exactly 2 parameters (so result 0
\* also occurs with "SUCCESS").
C10_SuccessIff ==
    \A t \in Callers :
        Done(t) =>
            ((~output[t].panicked /\ output[t].status = TXT_SUCCESS)
                <=> (AddCall(t) /\ Arity2(t)))

\* C6: after any sequence of earlier calls, two calls with an identical input
\* end with an identical output.
C6_Deterministic ==
    \A t, u \in Callers :
        Done(t) /\ Done(u) /\ input[t] = input[u] => output[t] = output[u]

C6_Witness ==
    \E t, u \in Callers :
        /\ t # u /\ Returned(t) /\ Returned(u)
        /\ input[t] = input[u]
        /\ AddCall(t) /\ input[t].parameters = <<1, 1>>
        /\ output[t].result = 2

\* what belongs to caller t
Frame(t) == <<pc[t], input[t], result[t], output[t], adds[t]>>

\* C9: under every interleaving each caller gets the output a lone call with
\* its own input returns; a step of one call changes no other caller's frame,
\* and no step changes the input of a call in progress.
C9_NoInterference ==
    /\ [](\A t \in Callers : Done(t) => output[t] = process_operation(input[t]))
    /\ [][/\ \E t \in Callers : \A u \in Callers \ {t} : Frame(u)' = Frame(u)
          /\ \A t \in Callers : pc[t] # "idle" /\ pc'[t] # "idle" => input'[t] = input[t]]_vars

C9_Witness ==
    \E t, u \in Callers :
        /\ t # u /\ Returned(t) /\ pc[u] = "build"
        /\ input[t].operation = OP_multiply
        /\ input[u].parameters = <<I32_MAX, 1>>

====
